---- MODULE Spec2Model ----
(***************************************************************************)
(* Model of seo_audit_tool_extended.py: the crawl-analyze-score pipeline.  *)
(*                                                                         *)
(* run_audit validates the seed, constructs an SEOCrawler, runs a pool of  *)
(* MAX_CONCURRENT_REQUESTS asyncio workers over one deque (to_visit), one  *)
(* set (seen) and one dict (results), and then builds the report: scores,  *)
(* canonical chains, JSON-LD issues.                                       *)
(*                                                                         *)
(* The workers are asyncio tasks on one event loop: a task runs without    *)
(* interruption from one await that really suspends to the next.  The only *)
(* suspension point of a worker is the network wait inside fetch, so every *)
(* action below is one such uninterrupted run of a task.                   *)
(***************************************************************************)
EXTENDS Integers, Sequences, FiniteSets, Bags, TLC

\* ------------------------------------------------------------------------
\* Program constants
\* ------------------------------------------------------------------------
MAX_CONCURRENT_REQUESTS == 8

\* Python None in the "status" field of a fetch result (the except branch).
NoneStatus == -1

\* the hard cap of the while loop of canonical_chain_check
CHAIN_CAP == 20

\* ------------------------------------------------------------------------
\* Bounds of the model
\* ------------------------------------------------------------------------
\* page budgets 0..MaxBudget are tried
MaxBudget == 3

\* the seed page carries at most MaxLinks anchors
MaxLinks == 2

\* a page carries at most MaxScripts ld+json script elements
MaxScripts == 2

\* ------------------------------------------------------------------------
\* Values
\* ------------------------------------------------------------------------
\* Python None where a URL, a text, an analysis, a score or a report is absent
None == [none |-> TRUE]

\* A URL as urlparse splits it.  The empty string parses to four empty parts.
Url(s, n, p, f) == [scheme |-> s, netloc |-> n, path |-> p, frag |-> f]

EmptyString == Url("", "", "", "")

\* An href attribute: the class of its first characters, which is what
\* str.startswith tests, and the reference it parses to.
Href(k, r) == [kind |-> k, ref |-> r]

\* a response body of length 0
EmptyText == [empty |-> TRUE]

\* ------------------------------------------------------------------------
\* URL functions
\* ------------------------------------------------------------------------
\* urllib.parse.urljoin for references whose path, when present, is absolute
urljoin(base, ref) ==
    IF ref.scheme # "" THEN ref
    ELSE IF ref.netloc # "" THEN [ref EXCEPT !.scheme = base.scheme]
    ELSE IF ref.path # "" THEN Url(base.scheme, base.netloc, ref.path, ref.frag)
    ELSE Url(base.scheme, base.netloc, base.path, ref.frag)

normalize_url(base, href) ==
    IF href.kind \in {"empty", "javascript", "mailto", "fragment"}
    THEN None
    ELSE [urljoin(base, href.ref) EXCEPT !.frag = ""]

is_same_origin_scheme_ignored(a, b) == a.netloc = b.netloc

is_same_origin(a, b) ==
    <<a.scheme, a.netloc>> = <<b.scheme, b.netloc>>

validators_url_scheme_only(u) == u.scheme \in {"http", "https"}

\* validators.url: an absolute http(s) URL with a host
validators_url(u) == u.scheme \in {"http", "https"} /\ u.netloc # ""

\* ------------------------------------------------------------------------
\* Analyzer
\* ------------------------------------------------------------------------
\* json.loads of a script's text, or the raw stub of the except branch.
\* A JSON value is modelled by its Python type and, for a dict, its keys.
json_ld_block(s) ==
    IF s.kind = "invalid"
    THEN [type |-> "dict", keys |-> {"raw"}]
    ELSE [type |-> s.kind, keys |-> s.keys]

\* the scripts with a .string, in document order
scripts_with_string(scripts) == SelectSeq(scripts, LAMBDA s : s.kind # "nostring")

analyze_html(url, text) ==
    LET kept == scripts_with_string(text.scripts) IN
    [ title            |-> [length |-> text.title_len],
      meta_description |-> [length |-> text.desc_len],
      h1               |-> [count |-> text.h1_count],
      canonical        |-> text.canonical,
      json_ld          |-> [i \in 1..Len(kept) |-> json_ld_block(kept[i])],
      links            |-> [count |-> Len(text.links)],
      word_count       |-> text.word_count ]

\* ------------------------------------------------------------------------
\* Cross-page checks
\* ------------------------------------------------------------------------
\* the issues of one block, index i as enumerate counts it (from 0)
block_issues_either_key(i, b) ==
    IF b.type = "dict"
    THEN (IF "@context" \notin b.keys \/ "@graph" \notin b.keys
          THEN <<[index |-> i, issue |-> "missing @context"]>> ELSE <<>>)
         \o
         (IF "@type" \notin b.keys \/ "@graph" \notin b.keys
          THEN <<[index |-> i, issue |-> "missing @type"]>> ELSE <<>>)
    ELSE <<[index |-> i, issue |-> "not a dict"]>>

block_issues(i, b) ==
    IF b.type = "dict"
    THEN (IF "@context" \notin b.keys /\ "@graph" \notin b.keys
          THEN <<[index |-> i, issue |-> "missing @context"]>> ELSE <<>>)
         \o
         (IF "@type" \notin b.keys /\ "@graph" \notin b.keys
          THEN <<[index |-> i, issue |-> "missing @type"]>> ELSE <<>>)
    ELSE <<[index |-> i, issue |-> "not a dict"]>>

RECURSIVE validate_json_ld_from(_, _)
validate_json_ld_from(json_ld_blocks, k) ==
    IF k > Len(json_ld_blocks) THEN <<>>
    ELSE block_issues(k - 1, json_ld_blocks[k])
         \o validate_json_ld_from(json_ld_blocks, k + 1)

validate_json_ld(json_ld_blocks) == validate_json_ld_from(json_ld_blocks, 1)

\* the condition of the while loop of canonical_chain_check
chain_continues_cap_inclusive(pages, chain, nxt) ==
    /\ nxt # EmptyString
    /\ nxt # chain[Len(chain)]
    /\ nxt \in DOMAIN pages
    /\ Len(chain) <= CHAIN_CAP

chain_continues_last_unchecked(pages, chain, nxt) ==
    /\ nxt # EmptyString
    /\ nxt \in DOMAIN pages
    /\ Len(chain) < CHAIN_CAP

chain_continues(pages, chain, nxt) ==
    /\ nxt # EmptyString
    /\ nxt # chain[Len(chain)]
    /\ nxt \in DOMAIN pages
    /\ Len(chain) < CHAIN_CAP

\* The while loop.  pages[nxt].get("analysis", {}) is None when the key is
\* present with the value None, and None.get raises AttributeError.
RECURSIVE chain_walk(_, _, _)
chain_walk(pages, chain, nxt) ==
    IF chain_continues(pages, chain, nxt)
    THEN IF pages[nxt].analysis = None
         THEN [raised |-> TRUE, chain |-> Append(chain, nxt)]
         ELSE chain_walk(pages, Append(chain, nxt), pages[nxt].analysis.canonical)
    ELSE [raised |-> FALSE, chain |-> chain]

\* The for loop over pages.items(), from the k-th key of the dict on; order
\* is the dict's insertion order.  chains is the list built so far.
RECURSIVE canonical_chain_check_from(_, _, _, _)
canonical_chain_check_from(pages, order, k, chains) ==
    IF k > Len(order) THEN [raised |-> FALSE, chains |-> chains]
    ELSE LET url == order[k]
             a   == pages[url].analysis
         IN IF a = None THEN [raised |-> TRUE, chains |-> chains]
            ELSE IF a.canonical = EmptyString
                 THEN canonical_chain_check_from(pages, order, k + 1, chains)
                 ELSE LET w == chain_walk(pages, <<url>>, a.canonical)
                      IN IF w.raised THEN [raised |-> TRUE, chains |-> chains]
                         ELSE canonical_chain_check_from(pages, order, k + 1,
                                  IF Len(w.chain) > 1
                                  THEN Append(chains, w.chain) ELSE chains)

canonical_chain_check(pages, order) ==
    canonical_chain_check_from(pages, order, 1, <<>>)

\* ------------------------------------------------------------------------
\* Scoring
\* ------------------------------------------------------------------------
\* Python truth of a status: None and 0 are false
status_truthy(status) == status # NoneStatus /\ status # 0

http_error_reason(status) ==
    IF status = NoneStatus THEN "HTTP error: None"
    ELSE "HTTP error: " \o ToString(status)

score_page_low_words_inclusive(analysis, fetch_info) ==
    LET s1 == IF analysis.title.length = 0 THEN 100 - 20 ELSE 100
        r1 == IF analysis.title.length = 0 THEN <<"Missing title">> ELSE <<>>
        s2 == IF analysis.meta_description.length = 0 THEN s1 - 10 ELSE s1
        r2 == IF analysis.meta_description.length = 0
              THEN Append(r1, "Missing meta description") ELSE r1
        s3 == IF analysis.h1.count = 0 THEN s2 - 10 ELSE s2
        r3 == IF analysis.h1.count = 0 THEN Append(r2, "Missing H1") ELSE r2
        s4 == IF analysis.word_count <= 100 THEN s3 - 5 ELSE s3
        r4 == IF analysis.word_count <= 100
              THEN Append(r3, "Low word count (<100)") ELSE r3
        bad == ~status_truthy(fetch_info.status) \/ fetch_info.status >= 400
        s5 == IF bad THEN 0 ELSE s4
        r5 == IF bad THEN Append(r4, http_error_reason(fetch_info.status)) ELSE r4
    IN [score |-> IF s5 > 0 THEN s5 ELSE 0, reasons |-> r5]

score_page(analysis, fetch_info) ==
    LET s1 == IF analysis.title.length = 0 THEN 100 - 20 ELSE 100
        r1 == IF analysis.title.length = 0 THEN <<"Missing title">> ELSE <<>>
        s2 == IF analysis.meta_description.length = 0 THEN s1 - 10 ELSE s1
        r2 == IF analysis.meta_description.length = 0
              THEN Append(r1, "Missing meta description") ELSE r1
        s3 == IF analysis.h1.count = 0 THEN s2 - 10 ELSE s2
        r3 == IF analysis.h1.count = 0 THEN Append(r2, "Missing H1") ELSE r2
        s4 == IF analysis.word_count < 100 THEN s3 - 5 ELSE s3
        r4 == IF analysis.word_count < 100
              THEN Append(r3, "Low word count (<100)") ELSE r3
        bad == ~status_truthy(fetch_info.status) \/ fetch_info.status >= 400
        s5 == IF bad THEN 0 ELSE s4
        r5 == IF bad THEN Append(r4, http_error_reason(fetch_info.status)) ELSE r4
    IN [score |-> IF s5 > 0 THEN s5 ELSE 0, reasons |-> r5]

\* ------------------------------------------------------------------------
\* The web the crawl runs against: inputs, drawn by Init
\* ------------------------------------------------------------------------
SEED      == Url("https", "a.com", "/", "")
PAGE_X    == Url("https", "a.com", "/x", "")
PAGE_Y    == Url("https", "a.com", "/y", "")
PAGE_Z    == Url("https", "a.com", "/z", "")
SEED_FRAG == Url("https", "a.com", "/", "top")
\* the string "a.com": no scheme, no host
BAD_SEED  == Url("", "", "a.com", "")
\* the string "https://": a scheme and nothing else
BAD_SEED_NO_HOST == Url("https", "", "", "")

\* "/", "/x#top", "/y", "https://b.com/x", "http://a.com/y", "#top"
Hrefs ==
    { Href("url", Url("", "", "/", "")),
      Href("url", Url("", "", "/x", "top")),
      Href("url", Url("", "", "/y", "")),
      Href("url", Url("https", "b.com", "/x", "")),
      Href("url", Url("http", "a.com", "/y", "")),
      Href("fragment", Url("", "", "", "top")) }

\* "mailto:a@a.com", "javascript:void(0)", "": anchors that are not pages
OtherHrefs ==
    << Href("mailto", Url("mailto", "", "a@a.com", "")),
       Href("javascript", Url("javascript", "", "void(0)", "")),
       Href("empty", EmptyString) >>

SeqsUpTo(S, n) == UNION { [1..k -> S] : k \in 0..n }

Doc(links, tl, dl, h1, wc, canonical, scripts) ==
    [ links |-> links, title_len |-> tl, desc_len |-> dl, h1_count |-> h1,
      word_count |-> wc, canonical |-> canonical, scripts |-> scripts ]

\* a page with every SEO signal present
PlainDoc(links) == Doc(links, 12, 80, 1, 250, EmptyString, <<>>)

OkPage(doc) == [status |-> 200, text |-> doc]
\* transport failure: the except branch of fetch, no "text" key
FailPage    == [status |-> NoneStatus, text |-> None]
\* a response with an empty body
EmptyPage   == [status |-> 200, text |-> EmptyText]

Budgets == 0..MaxBudget

\* link structure: the seed page with up to MaxLinks anchors, /x and /y
\* failing, empty or with at most one anchor
SeedPages == {FailPage} \cup { OkPage(PlainDoc(l)) : l \in SeqsUpTo(Hrefs, MaxLinks) }
SubPages  == {FailPage, EmptyPage, OkPage(PlainDoc(<<>>))}
             \cup { OkPage(PlainDoc(<<h>>)) : h \in Hrefs }
CrawlSites ==
    { (SEED :> a) @@ (PAGE_X :> b) @@ (PAGE_Y :> c) :
        a \in SeedPages, b \in SubPages, c \in SubPages }

\* one page, its status and SEO signals varying
ScoreSites ==
    { (SEED :> [status |-> st,
                text |-> Doc(OtherHrefs, tl, dl, h1, wc, EmptyString, <<>>)]) :
        st \in {200, 301, 399, 400, 404, 500},
        tl \in {0, 12}, dl \in {0, 80}, h1 \in {0, 1, 2},
        wc \in {0, 50, 99, 100, 250} }

\* three linked pages, their canonicals varying; "/x" is a relative canonical
Canonicals == {EmptyString, SEED, PAGE_X, PAGE_Y, PAGE_Z, Url("", "", "/x", "")}
ChainLinks == << Href("url", Url("", "", "/x", "top")), Href("url", Url("", "", "/y", "")) >>
ChainPage(links, c) == OkPage(Doc(links, 12, 80, 1, 250, c, <<>>))
ChainSites ==
    { (SEED :> ChainPage(ChainLinks, a)) @@ (PAGE_X :> ChainPage(<<>>, b)) @@ (PAGE_Y :> c) :
        a \in Canonicals, b \in Canonicals,
        c \in {FailPage} \cup { ChainPage(<<>>, d) : d \in Canonicals } }

\* one page with up to MaxScripts ld+json scripts
Scripts ==
    { [kind |-> "nostring", keys |-> {}],
      [kind |-> "invalid",  keys |-> {}],
      [kind |-> "list",     keys |-> {}],
      [kind |-> "str",      keys |-> {}] }
    \cup { [kind |-> "dict", keys |-> K] : K \in SUBSET {"@context", "@type", "@graph"} }
JsonLdSites ==
    { (SEED :> OkPage(Doc(<<>>, 12, 80, 1, 250, EmptyString, sc))) :
        sc \in SeqsUpTo(Scripts, MaxScripts) }

\* the seed given with a fragment
FragSites ==
    { (SEED :> OkPage(PlainDoc(l))) @@ (PAGE_X :> OkPage(PlainDoc(<<>>))) :
        l \in SeqsUpTo(Hrefs, 1) }

\* ------------------------------------------------------------------------
\* State
\* ------------------------------------------------------------------------
VARIABLES
    site,          \* the web: normalized URL -> the response it is served with
    seed,          \* run_audit's seed_url, SEOCrawler.seed
    max_pages,     \* SEOCrawler.max_pages
    audit_pc,      \* where run_audit is
    to_visit,      \* SEOCrawler.to_visit, a deque
    seen,          \* SEOCrawler.seen
    results,       \* SEOCrawler.results, a dict
    results_keys,  \* the insertion order of the keys of results
    unstarted,     \* worker tasks created and not yet run
    fetching,      \* the URLs of the workers suspended in fetch, a bag
    exited,        \* worker tasks that have returned
    sem,           \* the value of the semaphore
    enq_log,       \* history: every URL appended to to_visit, in order
    fetch_log,     \* history: every URL a fetch was issued for, in order
    peak_fetching, \* history: the largest number of fetches in flight at once
    report         \* what run_audit returns

vars == << site, seed, max_pages, audit_pc, to_visit, seen, results, results_keys,
           unstarted, fetching, exited, sem, enq_log, fetch_log, peak_fetching,
           report >>

EmptyDict == [u \in {} |-> None]

dict_set_analyzed_only(d, k, v) ==
    IF v.analysis = None THEN d
    ELSE [u \in DOMAIN d \cup {k} |-> IF u = k THEN v ELSE d[u]]

\* d[k] = v of a Python dict
dict_set(d, k, v) == [u \in DOMAIN d \cup {k} |-> IF u = k THEN v ELSE d[u]]

\* the server does not see the fragment; a URL the web does not know is served
\* a plain page without links
site_at(u) ==
    LET k == [u EXCEPT !.frag = ""]
    IN IF k \in DOMAIN site THEN site[k] ELSE OkPage(PlainDoc(<<>>))

fetch(url) == [url |-> url, status |-> site_at(url).status, text |-> site_at(url).text]

\* Python truth of resp.get("text"): None and "" are false
text_truthy(text) == text # None /\ text # EmptyText

\* ------------------------------------------------------------------------
\* Crawler
\* ------------------------------------------------------------------------
\* the condition of line 184, n being normalize_url's result
should_enqueue_seen_unchecked(n, seen_now) ==
    /\ n # None
    /\ is_same_origin(seed, n)
    /\ Cardinality(seen_now) < max_pages

should_enqueue_budget_short(n, seen_now) ==
    /\ n # None
    /\ is_same_origin(seed, n)
    /\ n \notin seen_now
    /\ Cardinality(seen_now) + 1 < max_pages

should_enqueue(n, seen_now) ==
    /\ n # None
    /\ is_same_origin(seed, n)
    /\ n \notin seen_now
    /\ Cardinality(seen_now) < max_pages

\* The for loop over the anchors of a page, from the k-th on.  st carries
\* seen, the deque and the history of appends.
RECURSIVE enqueue_links_seen_not_added(_, _, _, _)
enqueue_links_seen_not_added(url, links, k, st) ==
    IF k > Len(links) THEN st
    ELSE LET n == normalize_url(url, links[k])
         IN enqueue_links_seen_not_added(url, links, k + 1,
                IF should_enqueue(n, st.seen)
                THEN [seen  |-> st.seen,
                      queue |-> Append(st.queue, n),
                      log   |-> Append(st.log, n)]
                ELSE st)

RECURSIVE enqueue_links(_, _, _, _)
enqueue_links(url, links, k, st) ==
    IF k > Len(links) THEN st
    ELSE LET n == normalize_url(url, links[k])
         IN enqueue_links(url, links, k + 1,
                IF should_enqueue(n, st.seen)
                THEN [seen  |-> st.seen \cup {n},
                      queue |-> Append(st.queue, n),
                      log   |-> Append(st.log, n)]
                ELSE st)

\* the loop condition of a worker: while self.to_visit
while_to_visit_never(queue) == FALSE

while_to_visit(queue) == queue # <<>>

\* The top of the worker's loop, run without suspension up to the await of
\* fetch: leave the loop, or popleft, enter the semaphore and issue the fetch.
worker_loop(queue, inflight, permits) ==
    IF while_to_visit(queue)
    THEN /\ to_visit'  = Tail(queue)
         /\ fetching'  = inflight (+) SetToBag({Head(queue)})
         /\ sem'       = permits - 1
         /\ fetch_log' = Append(fetch_log, Head(queue))
         /\ peak_fetching' =
               IF BagCardinality(inflight) + 1 > peak_fetching
               THEN BagCardinality(inflight) + 1 ELSE peak_fetching
         /\ exited'    = exited
    ELSE /\ to_visit'  = queue
         /\ fetching'  = inflight
         /\ sem'       = permits
         /\ fetch_log' = fetch_log
         /\ peak_fetching' = peak_fetching
         /\ exited'    = exited + 1

\* run_audit with a seed validators.url rejects: ValueError
InvalidSeed ==
    /\ audit_pc = "start"
    /\ ~validators_url(seed)
    /\ audit_pc' = "value_error"
    /\ UNCHANGED << site, seed, max_pages, to_visit, seen, results, results_keys,
                    unstarted, fetching, exited, sem, enq_log, fetch_log,
                    peak_fetching, report >>

\* run_audit constructs the crawler; run creates the semaphore and the tasks
StartCrawl ==
    /\ audit_pc = "start"
    /\ validators_url(seed)
    /\ to_visit' = <<seed>>
    /\ seen' = {seed}
    /\ results' = EmptyDict
    /\ results_keys' = <<>>
    /\ sem' = MAX_CONCURRENT_REQUESTS
    /\ unstarted' = MAX_CONCURRENT_REQUESTS
    /\ enq_log' = <<seed>>
    /\ audit_pc' = "crawling"
    /\ UNCHANGED << site, seed, max_pages, fetching, exited, fetch_log,
                    peak_fetching, report >>

\* the first run of a worker task
WorkerStart ==
    /\ audit_pc = "crawling"
    /\ unstarted > 0
    /\ unstarted' = unstarted - 1
    /\ worker_loop(to_visit, fetching, sem)
    /\ UNCHANGED << site, seed, max_pages, audit_pc, seen, results, results_keys,
                    enq_log, report >>

\* The fetch of url returns to its worker, which runs on to its next await:
\* leaves the semaphore, records the result, analyzes, enqueues the links
\* and goes round its loop.
FetchReturn(url) ==
    /\ audit_pc = "crawling"
    /\ BagIn(url, fetching)
    /\ LET resp     == fetch(url)
           analyzed == status_truthy(resp.status) /\ text_truthy(resp.text)
           entry    == [fetch |-> resp,
                        analysis |-> IF analyzed THEN analyze_html(url, resp.text)
                                     ELSE None]
           st0      == [seen |-> seen, queue |-> to_visit, log |-> enq_log]
           st       == IF analyzed THEN enqueue_links(url, resp.text.links, 1, st0)
                       ELSE st0
       IN /\ results' = dict_set(results, url, entry)
          /\ results_keys' = IF url \in DOMAIN results THEN results_keys
                             ELSE Append(results_keys, url)
          /\ seen' = st.seen
          /\ enq_log' = st.log
          /\ worker_loop(st.queue, fetching (-) SetToBag({url}), sem + 1)
    /\ UNCHANGED << site, seed, max_pages, audit_pc, unstarted, report >>

\* gather has returned: every worker task has returned
workers_done == unstarted = 0 /\ fetching = EmptyBag

\* The rest of run_audit: pages, scores, canonical chains, JSON-LD issues.
\* An absent "analysis" key of results and the None that data.get makes of
\* it are the same value here.
report_pages ==
    [u \in DOMAIN results |->
        [fetch    |-> results[u].fetch,
         analysis |-> results[u].analysis,
         scores   |-> IF results[u].analysis # None
                      THEN score_page(results[u].analysis, results[u].fetch)
                      ELSE None]]

BuildReport ==
    /\ audit_pc = "crawling"
    /\ workers_done
    /\ LET pages == report_pages
           cc    == canonical_chain_check(pages, results_keys)
       IN IF cc.raised
          THEN /\ audit_pc' = "attribute_error"
               /\ report' = None
          ELSE /\ audit_pc' = "done"
               /\ report' =
                    [site |-> seed,
                     pages |-> pages,
                     canonical_chains |-> cc.chains,
                     json_ld_issues |->
                        [u \in {v \in DOMAIN pages : pages[v].analysis # None} |->
                            validate_json_ld(pages[u].analysis.json_ld)]]
    /\ UNCHANGED << site, seed, max_pages, to_visit, seen, results, results_keys,
                    unstarted, fetching, exited, sem, enq_log, fetch_log,
                    peak_fetching >>

\* ------------------------------------------------------------------------
\* Specifications
\* ------------------------------------------------------------------------
Inputs ==
    \/ seed = SEED /\ site \in CrawlSites /\ max_pages \in Budgets
    \/ seed = SEED /\ site \in ScoreSites /\ max_pages = MaxBudget
    \/ seed = SEED /\ site \in ChainSites /\ max_pages = MaxBudget
    \/ seed = SEED /\ site \in JsonLdSites /\ max_pages = MaxBudget
    \/ seed = SEED_FRAG /\ site \in FragSites /\ max_pages \in Budgets
    \/ seed \in {BAD_SEED, BAD_SEED_NO_HOST} /\ site \in FragSites /\ max_pages = MaxBudget

Init ==
    /\ Inputs
    /\ audit_pc = "start"
    /\ to_visit = <<>>
    /\ seen = {}
    /\ results = EmptyDict
    /\ results_keys = <<>>
    /\ unstarted = 0
    /\ fetching = EmptyBag
    /\ exited = 0
    /\ sem = 0
    /\ enq_log = <<>>
    /\ fetch_log = <<>>
    /\ peak_fetching = 0
    /\ report = None

\* The event loop runs the first step of every task created by run before it
\* delivers any network event: the tasks are queued by create_task in one
\* pass, and a completed fetch is queued behind them.
Next ==
    \/ InvalidSeed
    \/ StartCrawl
    \/ WorkerStart
    \/ \E url \in DOMAIN fetching : unstarted = 0 /\ FetchReturn(url)
    \/ BuildReport

Spec == Init /\ [][Next]_vars

\* Any order of the workers' steps: every behaviour of Spec and more
NextAny ==
    \/ InvalidSeed
    \/ StartCrawl
    \/ WorkerStart
    \/ \E url \in DOMAIN fetching : FetchReturn(url)
    \/ BuildReport

SpecAny == Init /\ [][NextAny]_vars

\* For the liveness check: the link structures with /y failing, without
\* anchors or linking back to /x, under no budget and under the largest
LiveSites ==
    { s \in CrawlSites :
        s[PAGE_Y] \in { FailPage, OkPage(PlainDoc(<<>>)),
                        OkPage(PlainDoc(<<Href("url", Url("", "", "/x", "top"))>>)) } }

LiveInputs ==
    \/ seed = SEED /\ site \in LiveSites /\ max_pages \in {0, MaxBudget}
    \/ seed = BAD_SEED /\ site \in FragSites /\ max_pages = MaxBudget

InitLive ==
    /\ LiveInputs
    /\ audit_pc = "start"
    /\ to_visit = <<>>
    /\ seen = {}
    /\ results = EmptyDict
    /\ results_keys = <<>>
    /\ unstarted = 0
    /\ fetching = EmptyBag
    /\ exited = 0
    /\ sem = 0
    /\ enq_log = <<>>
    /\ fetch_log = <<>>
    /\ peak_fetching = 0
    /\ report = None

\* every task that can run does run, and every fetch returns
FairSpecAny == InitLive /\ [][NextAny]_vars /\ WF_vars(NextAny)

TypeOK ==
    /\ audit_pc \in {"start", "value_error", "crawling", "attribute_error", "done"}
    /\ unstarted \in 0..MAX_CONCURRENT_REQUESTS
    /\ exited \in 0..MAX_CONCURRENT_REQUESTS
    /\ sem \in 0..MAX_CONCURRENT_REQUESTS

\* ------------------------------------------------------------------------
\* Properties
\* ------------------------------------------------------------------------
NoDuplicates(q) == \A i, j \in 1..Len(q) : i # j => q[i] # q[j]

\* the crawl is over: run has been entered and every worker has returned
crawl_ended == audit_pc \in {"crawling", "attribute_error", "done"} /\ workers_done

\* page u has been analyzed and one of its anchors normalizes to v
links_to(u, v) ==
    /\ u \in DOMAIN results
    /\ results[u].analysis # None
    /\ \E k \in 1..Len(site_at(u).text.links) :
          normalize_url(u, site_at(u).text.links[k]) = v

\* C1: at every moment the number of URLs in seen is at most the page budget,
\* and a report never has more pages than the budget.
C1_SeenWithinBudget ==
    /\ Cardinality(seen) <= max_pages
    /\ report # None => Cardinality(DOMAIN report.pages) <= max_pages

\* C2: under any interleaving no URL is appended to to_visit twice and no URL
\* is fetched twice.
C2_NoUrlTwice == NoDuplicates(enq_log) /\ NoDuplicates(fetch_log)

\* a finished crawl of a site with a page linking to itself and two pages
\* linking to each other
C2_Witness ==
    /\ crawl_ended
    /\ \E u \in DOMAIN results : links_to(u, u)
    /\ \E u, v \in DOMAIN results : u # v /\ links_to(u, v) /\ links_to(v, u)

\* C3: every URL fetched, and every key of results, has the scheme and the
\* authority of the seed.
C3_SameOriginOnly ==
    /\ \A u \in DOMAIN results :
          u.scheme = seed.scheme /\ u.netloc = seed.netloc
    /\ \A k \in 1..Len(fetch_log) :
          fetch_log[k].scheme = seed.scheme /\ fetch_log[k].netloc = seed.netloc

\* a finished crawl in which analyzed pages link to another host and to the
\* seed's host under another scheme
C3_Witness ==
    /\ crawl_ended
    /\ \E u \in DOMAIN results, v \in {Url("https", "b.com", "/x", "")} : links_to(u, v)
    /\ \E u \in DOMAIN results, v \in {Url("http", "a.com", "/y", "")} : links_to(u, v)

C5_ErrorPagesScoreZero ==
    audit_pc \in {"done", "attribute_error"} =>
        \A u \in DOMAIN results :
            (results[u].fetch.status = NoneStatus \/ results[u].fetch.status >= 400) =>
                /\ report # None
                /\ report.pages[u].scores # None
                /\ report.pages[u].scores.score = 0

\* the reasons of the table whose rule the document violates, in table order
expected_reasons(doc) ==
    SelectSeq(<< "Missing title", "Missing meta description", "Missing H1",
                 "Low word count (<100)" >>,
              LAMBDA r : \/ r = "Missing title" /\ doc.title_len = 0
                         \/ r = "Missing meta description" /\ doc.desc_len = 0
                         \/ r = "Missing H1" /\ doc.h1_count = 0
                         \/ r = "Low word count (<100)" /\ doc.word_count < 100)

expected_score(doc) ==
    100 - (IF doc.title_len = 0 THEN 20 ELSE 0)
        - (IF doc.desc_len = 0 THEN 10 ELSE 0)
        - (IF doc.h1_count = 0 THEN 10 ELSE 0)
        - (IF doc.word_count < 100 THEN 5 ELSE 0)

\* C6: a scored page fetched with a status below 400 has the score 100 minus
\* the deductions of the rules its document violates, and one reason per
\* violated rule in the table's order.
C6_ScoreIsTable ==
    report # None =>
        \A u \in DOMAIN report.pages :
            LET p == report.pages[u] IN
            (p.scores # None /\ p.fetch.status # NoneStatus /\ p.fetch.status < 400) =>
                /\ p.scores.score = expected_score(site_at(u).text)
                /\ p.scores.reasons = expected_reasons(site_at(u).text)

\* a report with a page of status 200 violating all four rules: 55, four reasons
C6_Witness ==
    /\ report # None
    /\ \E u \in DOMAIN report.pages :
          /\ report.pages[u].fetch.status = 200
          /\ site_at(u).text.title_len = 0
          /\ site_at(u).text.desc_len = 0
          /\ site_at(u).text.h1_count = 0
          /\ site_at(u).text.word_count = 50
          /\ report.pages[u].scores.score = 55
          /\ Len(report.pages[u].scores.reasons) = 4

\* pages a and b are both in the report and name each other as canonical
mutual_canonical(a, b) ==
    /\ a # b
    /\ report.pages[a].analysis # None
    /\ report.pages[b].analysis # None
    /\ report.pages[a].analysis.canonical = b
    /\ report.pages[b].analysis.canonical = a

issues_of_block(u, i) ==
    LET at == SelectSeq(report.json_ld_issues[u], LAMBDA e : e.index = i)
    IN [k \in 1..Len(at) |-> at[k].issue]

\* C8: a script that does not parse is kept as a block and that block is
\* flagged "not a dict" and nothing else.
C8_RawStubNotADict ==
    report # None =>
        \A u \in DOMAIN report.json_ld_issues :
            LET kept == scripts_with_string(site_at(u).text.scripts) IN
            /\ Len(report.pages[u].analysis.json_ld) = Len(kept)
            /\ \A i \in 1..Len(kept) :
                  kept[i].kind = "invalid" => issues_of_block(u, i - 1) = <<"not a dict">>

\* C9: a block parsed to a JSON object is flagged "missing @context" exactly
\* when it has neither @context nor @graph, and "missing @type" exactly when
\* it has neither @type nor @graph, each at most once and nothing else.
C9_ObjectBlockIssues ==
    report # None =>
        \A u \in DOMAIN report.json_ld_issues :
            LET kept == scripts_with_string(site_at(u).text.scripts) IN
            \A i \in 1..Len(kept) :
               kept[i].kind = "dict" =>
                  LET K  == kept[i].keys
                      is == issues_of_block(u, i - 1)
                      noctx  == ~("@context" \in K) /\ ~("@graph" \in K)
                      notype == ~("@type" \in K) /\ ~("@graph" \in K)
                  IN /\ is = (IF noctx THEN <<"missing @context">> ELSE <<>>)
                             \o (IF notype THEN <<"missing @type">> ELSE <<>>)
                     /\ K = {"@type"} => is = <<"missing @context">>
                     /\ "@graph" \in K => is = <<>>

\* a report over a page with a block having only @type and a block with @graph
C9_Witness ==
    /\ report # None
    /\ \E u \in DOMAIN report.json_ld_issues :
          LET kept == scripts_with_string(site_at(u).text.scripts) IN
          /\ Len(kept) = 2
          /\ kept[1].kind = "dict" /\ kept[1].keys = {"@type"}
          /\ kept[2].kind = "dict" /\ "@graph" \in kept[2].keys
          /\ report.json_ld_issues[u] = <<[index |-> 0, issue |-> "missing @context"]>>

\* the URLs the anchors of u normalize to, when u is served with a status and
\* a body
link_targets(u) ==
    LET page == site_at(u) IN
    IF status_truthy(page.status) /\ text_truthy(page.text)
    THEN { normalize_url(u, page.text.links[k]) :
             k \in { j \in 1..Len(page.text.links) :
                       normalize_url(u, page.text.links[j]) # None } }
    ELSE {}

\* S and the URLs of the seed's origin one anchor away from S
link_step(S) ==
    S \cup { n \in UNION { link_targets(u) : u \in S } :
               n.scheme = seed.scheme /\ n.netloc = seed.netloc }

RECURSIVE reachable_from(_)
reachable_from(S) == IF link_step(S) = S THEN S ELSE reachable_from(link_step(S))

\* the seed and every URL of its origin reachable from it; a function of the
\* site and the seed alone
Reachable == reachable_from({seed})

failed_fetch(u) ==
    \/ ~status_truthy(site_at(u).status)
    \/ ~text_truthy(site_at(u).text)

\* C11: the step in which a failed or empty fetch returns records the fetch
\* result without an analysis, adds nothing to seen or to the queue, leaves
\* the crawl running, and has the same worker take the next queued URL when
\* there is one.
C11_FailedFetchGoesOn ==
    [][\A u \in DOMAIN fetching :
          (failed_fetch(u) /\ CopiesIn(u, fetching') < CopiesIn(u, fetching)) =>
             /\ u \in DOMAIN results'
             /\ results'[u].fetch = [url |-> u, status |-> site_at(u).status,
                                     text |-> site_at(u).text]
             /\ results'[u].analysis = None
             /\ seen' = seen
             /\ enq_log' = enq_log
             /\ audit_pc' = "crawling"
             /\ to_visit # <<>> =>
                   /\ to_visit' = Tail(to_visit)
                   /\ BagIn(Head(to_visit), fetching')
                   /\ exited' = exited]_vars

\* a finished crawl in which a fetch failed or came back empty and another
\* URL was fetched after it
C11_Witness ==
    /\ crawl_ended
    /\ \E k \in 1..Len(results_keys) :
          /\ k < Len(results_keys)
          /\ failed_fetch(results_keys[k])
          /\ results[results_keys[k]].analysis = None
          /\ \E j \in 1..Len(fetch_log) :
                /\ j < Len(fetch_log)
                /\ fetch_log[j] = results_keys[k]
                /\ fetch_log[j + 1] = results_keys[k + 1]

\* C12: with a seed that is not an absolute URL (no scheme or no host) no
\* crawler is constructed, no worker is created, no fetch is issued and no
\* report is produced; run_audit has failed or not yet run.
C12_InvalidSeedFailsFast ==
    (seed.scheme = "" \/ seed.netloc = "") =>
        /\ audit_pc \in {"start", "value_error"}
        /\ to_visit = <<>>
        /\ seen = {}
        /\ unstarted = 0
        /\ exited = 0
        /\ fetching = EmptyBag
        /\ fetch_log = <<>>
        /\ DOMAIN results = {}
        /\ report = None

\* run_audit has raised ValueError on a seed with a scheme and no host
C12_Witness ==
    /\ audit_pc = "value_error"
    /\ seed.netloc = ""
    /\ seed.scheme = "https"

\* the seed's page has been analyzed and has put two or more URLs in the queue
seed_page_put_two ==
    /\ seed \in DOMAIN results
    /\ results[seed].analysis # None
    /\ max_pages >= 3
    /\ Cardinality({ n \in link_targets(seed) :
                       /\ n.scheme = seed.scheme /\ n.netloc = seed.netloc
                       /\ n # seed }) >= 2

\* C13: in a crawl in which a page has put two or more URLs in the queue,
\* two fetches have been in flight at once by the time the crawl ends.
C13_FetchesOverlap ==
    (crawl_ended /\ seed_page_put_two) => peak_fetching >= 2

\* Under the event loop's order of steps the pool never has two fetches in
\* flight: every worker but the one fetching the seed finds the deque empty
\* on its first step and returns.
OneFetchAtATime ==
    /\ BagCardinality(fetching) <= 1
    /\ peak_fetching <= 1
    /\ (audit_pc = "crawling" /\ unstarted = 0) =>
          exited >= MAX_CONCURRENT_REQUESTS - 1

\* the URL without its fragment
without_fragment(u) == [u EXCEPT !.frag = ""]

\* C14: no two URLs of seen, and no two keys of results, differ only in
\* their fragment.
C14_NoFragmentTwins ==
    /\ \A u, v \in seen : without_fragment(u) = without_fragment(v) => u = v
    /\ \A u, v \in DOMAIN results :
          without_fragment(u) = without_fragment(v) => u = v

\* the reported chains that start at page u
chains_from(u) ==
    { k \in 1..Len(report.canonical_chains) : report.canonical_chains[k][1] = u }

\* following the canonical of page u appends at least one hop: the canonical
\* is not empty, is not u itself and is a crawled page
has_first_hop(u) ==
    LET c == report.pages[u].analysis.canonical IN
    c # EmptyString /\ c # u /\ c \in DOMAIN report.pages

queued == { to_visit[k] : k \in 1..Len(to_visit) }

\* the number of places url is in: the deque (each position counts), the
\* workers holding it, the keys of results
places(url) ==
    Cardinality({ k \in 1..Len(to_visit) : to_visit[k] = url })
    + CopiesIn(url, fetching)
    + (IF url \in DOMAIN results THEN 1 ELSE 0)

\* C16: every URL of seen is in exactly one place (queued, held by a worker,
\* or a key of results), and nothing outside seen is in any of them.
C16_SeenPartition ==
    /\ \A u \in seen : places(u) = 1
    /\ queued \subseteq seen
    /\ BagToSet(fetching) \subseteq seen
    /\ DOMAIN results \subseteq seen

\* one URL queued, another being fetched and a third with its result recorded
C16_Witness ==
    /\ to_visit # <<>>
    /\ fetching # EmptyBag
    /\ DOMAIN results # {}
    /\ Cardinality(seen) >= 3

====
